---- MODULE Spec2Model ----
(***************************************************************************)
(* Model of examples/agents/skills/pdf-processing/scripts/extract.py:      *)
(* the command-line entry point and extract_text, one action per           *)
(* statement that can be observed (stream writes, handle open/close,       *)
(* file writes, process exit).  Strings are sequences of string tokens.    *)
(***************************************************************************)
EXTENDS Integers, Sequences, FiniteSets, TLC

\* ---- bounds --------------------------------------------------------------
MaxPages == 3          \* most pages in the input document
MaxRuns == 2           \* most successive invocations of the script

\* ---- values --------------------------------------------------------------
None == "None"         \* Python's None
Raises == "<raises>"   \* a page whose extract_text() raises
NL == "\n"
Prog == "extract.py"
InputPdf == "in.pdf"
OutTxt == "out.txt"

\* what page.extract_text() can do on one page: None, "", text, or raise
PageOutcomes == {None, "", "a", "b", Raises}

\* the document found at the input path
Documents ==
    {[kind |-> "missing", pages |-> <<>>], [kind |-> "badtree", pages |-> <<>>]}
    \cup {[kind |-> "ok", pages |-> p] :
            p \in UNION {[1..n -> PageOutcomes] : n \in 0..MaxPages}}

\* sys.argv of one invocation
ArgVectors ==
    {<<Prog>>, <<Prog, InputPdf>>, <<Prog, InputPdf, "">>, <<Prog, InputPdf, OutTxt>>}

NoFile == [exists |-> FALSE, data |-> <<>>]
OldFile == [exists |-> TRUE, data |-> <<"old">>]

VARIABLES
    argv,          \* sys.argv
    pdf,           \* the document on disk at the input path
    fs,            \* output files on disk: path -> [exists, data]
    pc,            \* position of the process
    pdf_path,      \* extract_text parameter
    output_path,   \* extract_text parameter
    docOpen,       \* the pdfplumber document handle is open
    i,             \* loop ordinal (enumerate(pdf.pages, 1))
    text_content,  \* list of blocks
    result,        \* joined blocks
    outOpen,       \* the output file handle f is open
    exc,           \* exception in flight (None when there is none)
    stdout,        \* text written to standard output by this process
    stderr,        \* lines written to standard error by this process
    exit,          \* exit status once pc = "exited"
    run,           \* ordinal of the current invocation
    prev           \* the previous invocation: its argv, exit status and the files it left

vars == <<argv, pdf, fs, pc, pdf_path, output_path, docOpen, i, text_content,
          result, outOpen, exc, stdout, stderr, exit, run, prev>>

\* ---- pure helpers --------------------------------------------------------

\* `if text:` (line 21)
\* variant: `if text is not None:`
Truthy_NotNone(t) == t /= None
Truthy(t) == t \notin {None, ""}

\* f"--- Page {i} ---\n{text}\n" (line 22)
Block(n, t) == <<"--- Page ", ToString(n), " ---", NL, t, NL>>

\* '\n'.join(text_content) (line 24)
RECURSIVE Join(_)
Join(blocks) ==
    IF Len(blocks) = 0 THEN <<>>
    ELSE IF Len(blocks) = 1 THEN blocks[1]
    ELSE blocks[1] \o <<NL>> \o Join(Tail(blocks))

\* f"Processing page {i}/{len(pdf.pages)}..." (line 19)
\* variant: enumerate(pdf.pages) without the start of 1
Progress_ZeroBased(n, total) ==
    <<"Processing page ", ToString(n - 1), "/", ToString(total), "...">>
Progress(n, total) == <<"Processing page ", ToString(n), "/", ToString(total), "...">>

\* f"Text extracted to {output_path}" (line 29)
Confirmation(path) == <<"Text extracted to ", path>>

\* f"Error: {e}" (line 34)
ErrorLine(e) == <<"Error: ", e>>

\* __doc__ (lines 2-7)
Usage == <<"Usage:", "extract.py <input_pdf> [output_txt]">>

\* print(s) to standard output: the text and a newline (line 31)
PutLine(stream, s) == stream \o s \o <<NL>>

\* output_txt = sys.argv[2] if len(sys.argv) > 2 else None (line 43; TLA+ is 1-based)
\* variant: a default output file instead of None
OutputArg_Default(av) == IF Len(av) > 2 THEN av[3] ELSE OutTxt
OutputArg(av) == IF Len(av) > 2 THEN av[3] ELSE None

\* `if output_path:` (line 26)
OutputWanted(path) == path \notin {None, ""}

\* open(output_path, 'w'): the file exists and is empty (line 27)
\* variant: mode 'a'
OpenAppend(f) == [exists |-> TRUE, data |-> IF f.exists THEN f.data ELSE <<>>]
OpenTruncate(f) == [exists |-> TRUE, data |-> <<>>]

\* number of pages, len(pdf.pages)
T == Len(pdf.pages)

\* ---- initial state -------------------------------------------------------
Init ==
    /\ argv \in ArgVectors
    /\ pdf \in Documents
    /\ fs \in [{OutTxt} -> {NoFile, OldFile}]
    /\ pc = "main"
    /\ pdf_path = None
    /\ output_path = None
    /\ docOpen = FALSE
    /\ i = 0
    /\ text_content = <<>>
    /\ result = <<>>
    /\ outOpen = FALSE
    /\ exc = None
    /\ stdout = <<>>
    /\ stderr = <<>>
    /\ exit = 0
    /\ run = 1
    /\ prev = [argv |-> <<>>, exit |-> 1, fs |-> fs]

\* ---- __main__ (lines 37-45) ----------------------------------------------

\* len(sys.argv) < 2: usage to standard error, exit status 1 (lines 38-40)
\* variant: print(__doc__) without file=sys.stderr
MainUsage_ToStdout ==
    /\ pc = "main"
    /\ Len(argv) < 2
    /\ stdout' = PutLine(stdout, Usage)
    /\ exit' = 1
    /\ pc' = "exited"
    /\ UNCHANGED <<argv, pdf, fs, pdf_path, output_path, docOpen, i, text_content,
                   result, outOpen, exc, stderr, run, prev>>
MainUsage ==
    /\ pc = "main"
    /\ Len(argv) < 2
    /\ stderr' = Append(stderr, Usage)
    /\ exit' = 1
    /\ pc' = "exited"
    /\ UNCHANGED <<argv, pdf, fs, pdf_path, output_path, docOpen, i, text_content,
                   result, outOpen, exc, stdout, run, prev>>

\* input_pdf, output_txt and the call of extract_text (lines 42-45, 12-14)
MainCall ==
    /\ pc = "main"
    /\ Len(argv) >= 2
    /\ pdf_path' = argv[2]
    /\ output_path' = OutputArg(argv)
    /\ text_content' = <<>>
    /\ pc' = "open"
    /\ UNCHANGED <<argv, pdf, fs, docOpen, i, result, outOpen, exc, stdout, stderr,
                   exit, run, prev>>

\* ---- extract_text (lines 12-35) ------------------------------------------

\* pdfplumber.open(pdf_path) and entry of the with block (line 17)
OpenDoc ==
    /\ pc = "open"
    /\ IF pdf.kind = "missing"
       THEN /\ exc' = "cannot open"
            /\ pc' = "except"
            /\ UNCHANGED docOpen
       ELSE /\ docOpen' = TRUE
            /\ pc' = "pages"
            /\ UNCHANGED exc
    /\ UNCHANGED <<argv, pdf, fs, pdf_path, output_path, i, text_content, result,
                   outOpen, stdout, stderr, exit, run, prev>>

\* pdf.pages is built and enumerate(pdf.pages, 1) starts (line 18)
Pages ==
    /\ pc = "pages"
    /\ IF pdf.kind = "badtree"
       THEN /\ exc' = "bad page tree"
            /\ pc' = "withexit"
            /\ UNCHANGED i
       ELSE /\ i' = 1
            /\ pc' = "loop"
            /\ UNCHANGED exc
    /\ UNCHANGED <<argv, pdf, fs, pdf_path, output_path, docOpen, text_content,
                   result, outOpen, stdout, stderr, exit, run, prev>>

\* next page i exists: the progress notice (lines 18-19)
LoopNotice ==
    /\ pc = "loop"
    /\ i <= T
    /\ stderr' = Append(stderr, Progress(i, T))
    /\ pc' = "extract"
    /\ UNCHANGED <<argv, pdf, fs, pdf_path, output_path, docOpen, i, text_content,
                   result, outOpen, exc, stdout, exit, run, prev>>

\* the pages are exhausted: the loop ends and the with block is left (line 18)
\* variant: lines 24-31 indented into the with block
LoopDone_StayOpen ==
    /\ pc = "loop"
    /\ i > T
    /\ pc' = "join"
    /\ UNCHANGED <<argv, pdf, fs, pdf_path, output_path, docOpen, i, text_content,
                   result, outOpen, exc, stdout, stderr, exit, run, prev>>
LoopDone ==
    /\ pc = "loop"
    /\ i > T
    /\ pc' = "withexit"
    /\ UNCHANGED <<argv, pdf, fs, pdf_path, output_path, docOpen, i, text_content,
                   result, outOpen, exc, stdout, stderr, exit, run, prev>>

\* text = page.extract_text(); if text: text_content.append(...) (lines 20-22)
Extract ==
    /\ pc = "extract"
    /\ LET text == pdf.pages[i] IN
       IF text = Raises
       THEN /\ exc' = "extract failed"
            /\ pc' = "withexit"
            /\ UNCHANGED <<i, text_content>>
       ELSE /\ text_content' = IF Truthy(text)
                               THEN Append(text_content, Block(i, text))
                               ELSE text_content
            /\ i' = i + 1
            /\ pc' = "loop"
            /\ UNCHANGED exc
    /\ UNCHANGED <<argv, pdf, fs, pdf_path, output_path, docOpen, result, outOpen,
                   stdout, stderr, exit, run, prev>>

\* the with block of line 17 is left, normally or by an exception: the
\* document is closed and an exception in flight goes on to line 33
\* variant: a context manager that swallows the exception
CloseDoc_Suppress ==
    /\ pc = "withexit"
    /\ docOpen' = FALSE
    /\ exc' = None
    /\ pc' = "join"
    /\ UNCHANGED <<argv, pdf, fs, pdf_path, output_path, i, text_content, result,
                   outOpen, stdout, stderr, exit, run, prev>>
\* variant: pdf.close() after the loop instead of a with block
CloseDoc_OnSuccessOnly ==
    /\ pc = "withexit"
    /\ docOpen' = IF exc = None THEN FALSE ELSE docOpen
    /\ pc' = IF exc = None THEN "join" ELSE "except"
    /\ UNCHANGED <<argv, pdf, fs, pdf_path, output_path, i, text_content, result,
                   outOpen, exc, stdout, stderr, exit, run, prev>>
CloseDoc ==
    /\ pc = "withexit"
    /\ docOpen' = FALSE
    /\ pc' = IF exc = None THEN "join" ELSE "except"
    /\ UNCHANGED <<argv, pdf, fs, pdf_path, output_path, i, text_content, result,
                   outOpen, exc, stdout, stderr, exit, run, prev>>

\* result = '\n'.join(text_content) (line 24)
JoinBlocks ==
    /\ pc = "join"
    /\ result' = Join(text_content)
    /\ pc' = "deliver"
    /\ UNCHANGED <<argv, pdf, fs, pdf_path, output_path, docOpen, i, text_content,
                   outOpen, exc, stdout, stderr, exit, run, prev>>

\* if output_path: open(output_path, 'w', encoding='utf-8') (lines 26-27);
\* the open can fail (no such directory, permission), and always fails on a
\* path that names no file
OpenOut ==
    /\ pc = "deliver"
    /\ OutputWanted(output_path)
    /\ \E ok \in BOOLEAN :
        IF ok /\ output_path \in DOMAIN fs
        THEN /\ fs' = [fs EXCEPT ![output_path] = OpenTruncate(@)]
             /\ outOpen' = TRUE
             /\ pc' = "write"
             /\ UNCHANGED exc
        ELSE /\ exc' = "cannot open output"
             /\ pc' = "except"
             /\ UNCHANGED <<fs, outOpen>>
    /\ UNCHANGED <<argv, pdf, pdf_path, output_path, docOpen, i, text_content,
                   result, stdout, stderr, exit, run, prev>>

\* f.write(result) (line 28); a failing write (disk full) leaves part of the text
Write ==
    /\ pc = "write"
    /\ \/ /\ fs' = [fs EXCEPT ![output_path].data = @ \o result]
          /\ UNCHANGED exc
       \/ /\ \E k \in {0} \cup (0..(Len(result) - 1)) :
                fs' = [fs EXCEPT ![output_path].data = @ \o SubSeq(result, 1, k)]
          /\ exc' = "write failed"
    /\ pc' = "closeout"
    /\ UNCHANGED <<argv, pdf, pdf_path, output_path, docOpen, i, text_content,
                   result, outOpen, stdout, stderr, exit, run, prev>>

\* the with block of line 27 is left: f is closed
CloseOut ==
    /\ pc = "closeout"
    /\ outOpen' = FALSE
    /\ pc' = IF exc = None THEN "confirm" ELSE "except"
    /\ UNCHANGED <<argv, pdf, fs, pdf_path, output_path, docOpen, i, text_content,
                   result, exc, stdout, stderr, exit, run, prev>>

\* print(f"Text extracted to {output_path}", file=sys.stderr) (line 29)
Confirm ==
    /\ pc = "confirm"
    /\ stderr' = Append(stderr, Confirmation(output_path))
    /\ pc' = "return"
    /\ UNCHANGED <<argv, pdf, fs, pdf_path, output_path, docOpen, i, text_content,
                   result, outOpen, exc, stdout, exit, run, prev>>

\* else: print(result) (lines 30-31); the write to standard output can fail
WriteStdout ==
    /\ pc = "deliver"
    /\ ~OutputWanted(output_path)
    /\ \/ /\ stdout' = PutLine(stdout, result)
          /\ pc' = "return"
          /\ UNCHANGED exc
       \/ /\ exc' = "stdout failed"
          /\ pc' = "except"
          /\ UNCHANGED stdout
    /\ UNCHANGED <<argv, pdf, fs, pdf_path, output_path, docOpen, i, text_content,
                   result, outOpen, stderr, exit, run, prev>>

\* extract_text returns and the script ends: exit status 0 (line 45)
Return ==
    /\ pc = "return"
    /\ exit' = 0
    /\ pc' = "exited"
    /\ UNCHANGED <<argv, pdf, fs, pdf_path, output_path, docOpen, i, text_content,
                   result, outOpen, exc, stdout, stderr, run, prev>>

\* except Exception as e: print(f"Error: {e}", file=sys.stderr); sys.exit(1)
\* (lines 33-35)
\* variant: the handler without sys.exit(1)
Except_NoExit ==
    /\ pc = "except"
    /\ stderr' = Append(stderr, ErrorLine(exc))
    /\ exit' = 0
    /\ pc' = "exited"
    /\ UNCHANGED <<argv, pdf, fs, pdf_path, output_path, docOpen, i, text_content,
                   result, outOpen, exc, stdout, run, prev>>
Except ==
    /\ pc = "except"
    /\ stderr' = Append(stderr, ErrorLine(exc))
    /\ exit' = 1
    /\ pc' = "exited"
    /\ UNCHANGED <<argv, pdf, fs, pdf_path, output_path, docOpen, i, text_content,
                   result, outOpen, exc, stdout, run, prev>>

\* the script is run again, on the same document and the files the last run left
Invoke ==
    /\ pc = "exited"
    /\ run < MaxRuns
    /\ prev' = [argv |-> argv, exit |-> exit, fs |-> fs]
    /\ run' = run + 1
    /\ argv' \in ArgVectors
    /\ pc' = "main"
    /\ pdf_path' = None
    /\ output_path' = None
    /\ docOpen' = FALSE
    /\ i' = 0
    /\ text_content' = <<>>
    /\ result' = <<>>
    /\ outOpen' = FALSE
    /\ exc' = None
    /\ stdout' = <<>>
    /\ stderr' = <<>>
    /\ exit' = 0
    /\ UNCHANGED <<pdf, fs>>

Next ==
    \/ MainUsage
    \/ MainCall
    \/ OpenDoc
    \/ Pages
    \/ LoopNotice
    \/ LoopDone
    \/ Extract
    \/ CloseDoc
    \/ JoinBlocks
    \/ OpenOut
    \/ Write
    \/ CloseOut
    \/ Confirm
    \/ WriteStdout
    \/ Return
    \/ Except
    \/ Invoke

Spec == Init /\ [][Next]_vars

\* ---- observations used by the properties ---------------------------------

\* the progress notices among the lines on standard error
IsNotice(line) == line[1] = "Processing page "
Notices == SelectSeq(stderr, IsNotice)
NoticesUpTo(n) ==
    [k \in 1..n |-> <<"Processing page ", ToString(k), "/", ToString(T), "...">>]

\* the page blocks found in a text: <<ordinal, text>> of every marker, in order
RECURSIVE BlocksFrom(_, _)
BlocksFrom(s, p) ==
    IF p > Len(s) THEN <<>>
    ELSE IF s[p] = "--- Page " /\ p + 4 <= Len(s) /\ s[p + 2] = " ---"
         THEN <<(<<s[p + 1], s[p + 4]>>)>> \o BlocksFrom(s, p + 1)
         ELSE BlocksFrom(s, p + 1)
BlocksIn(s) == BlocksFrom(s, 1)

\* the blocks the pages 1..n of the document call for
RECURSIVE BlocksOf(_, _)
BlocksOf(pages, n) ==
    IF n = 0 THEN <<>>
    ELSE BlocksOf(pages, n - 1) \o
         (IF pages[n] \notin {None, ""} THEN <<(<<ToString(n), pages[n]>>)>> ELSE <<>>)

\* the failures of the document pass: open, page tree, page extraction
DocFailures == {"cannot open", "bad page tree", "extract failed"}
OutFailures == {"cannot open output", "write failed", "stdout failed"}

AfterJoin == pc \in {"deliver", "write", "closeout", "confirm", "return"}
Succeeded == pc = "exited" /\ exit = 0 /\ Len(argv) >= 2
HasText == \E k \in 1..T : pdf.pages[k] \notin {None, ""}

\* C1: after a successful page pass the result holds exactly one block per
\* page with non-empty text, labelled with the page's own ordinal, in
\* increasing order, and nothing for a page with empty or absent text.
C1_BlocksArePagesWithText ==
    (AfterJoin \/ (Succeeded /\ exc = None)) => BlocksIn(result) = BlocksOf(pdf.pages, T)

\* a three page document whose second page has no text came out as pages 1, 3
C1_Witness ==
    /\ Succeeded
    /\ T = 3
    /\ pdf.pages[2] \in {None, ""}
    /\ BlocksIn(result) = <<(<<"1", pdf.pages[1]>>), (<<"3", pdf.pages[3]>>)>>

\* C2: whenever an output_txt argument is given, whatever its value, a
\* successful run writes nothing to standard output and leaves the file at
\* that path holding exactly the result.
C2_OutputArgGoesToFile ==
    (Succeeded /\ Len(argv) > 2) =>
        /\ stdout = <<>>
        /\ argv[3] \in DOMAIN fs
        /\ fs[argv[3]].exists
        /\ fs[argv[3]].data = result

\* C3: with an input_pdf and no output_txt a successful run has written the
\* full result to standard output, and no run of that form ever opens,
\* creates or writes a file.
C3_NoOutputArgGoesToStdout ==
    Len(argv) = 2 =>
        /\ fs = prev.fs
        /\ ~outOpen
        /\ Succeeded => stdout = result \o <<NL>>

C3_Witness ==
    /\ Succeeded
    /\ Len(argv) = 2
    /\ HasText
    /\ stdout = result \o <<NL>>

\* C4: a failure of the open, of the page pass or of the output write ends
\* in the handler: the Error line is the last line on standard error and the
\* exit status is 1; after the failure no page is processed, no notice is
\* emitted and no step of the pass is taken again.
C4_FailureIsReported ==
    /\ [](exc /= None => pc \in {"withexit", "closeout", "except", "exited"})
    /\ []((pc = "exited" /\ exc /= None) =>
            /\ exit = 1
            /\ Len(stderr) > 0
            /\ stderr[Len(stderr)] = ErrorLine(exc))
    /\ []((pc = "exited" /\ Len(argv) >= 2 /\ exit = 1) => exc /= None)
    /\ [][(exc /= None /\ run' = run) =>
            /\ i' = i
            /\ text_content' = text_content
            /\ result' = result
            /\ Notices' = Notices
            /\ exc' = exc]_vars

\* page 2 of 3 failed: exit status 1, one Error line, page 3 never reached
C4_Witness ==
    /\ pc = "exited"
    /\ exit = 1
    /\ exc = "extract failed"
    /\ T = 3
    /\ i = 2
    /\ stderr = <<Progress(1, 3), Progress(2, 3), <<"Error: ", "extract failed">> >>

\* C5: after a failure of the open or of any page the output file is never
\* opened or changed and standard output stays empty; output is touched only
\* when every page has been processed without failure.
C5_NoOutputAfterDocFailure ==
    /\ exc \in DocFailures => (fs = prev.fs /\ ~outOpen /\ stdout = <<>>)
    /\ (fs /= prev.fs \/ outOpen \/ stdout /= <<>>) =>
            /\ pdf.kind = "ok"
            /\ i = T + 1
            /\ \A k \in 1..T : pdf.pages[k] /= Raises

\* the last page failed with an output path given and an old file in place
C5_Witness ==
    /\ pc = "exited"
    /\ exc = "extract failed"
    /\ T > 1
    /\ i = T
    /\ output_path = OutTxt
    /\ fs[OutTxt] = OldFile
    /\ stdout = <<>>

\* C6: the document handle is open only inside the with block; it is closed
\* after the loop and after a failure in it, and no process ends with it open.
C6_DocumentClosedOnExit ==
    /\ docOpen => pc \in {"pages", "loop", "extract", "withexit"}
    /\ pc = "exited" => ~docOpen

\* a page failed while the handle was open, and the process ended with it closed
C6_Witness ==
    /\ pc = "exited"
    /\ exc \in {"extract failed", "bad page tree"}
    /\ ~docOpen

\* C7: with no argument the script writes the usage text to standard error
\* and exits with status 1; extract_text is never entered, no document is
\* opened, no file is written, standard output stays empty.
C7_NoArgumentsIsUsageError ==
    Len(argv) < 2 =>
        /\ pc \in {"main", "exited"}
        /\ pdf_path = None
        /\ ~docOpen
        /\ ~outOpen
        /\ fs = prev.fs
        /\ stdout = <<>>
        /\ pc = "exited" => (exit = 1 /\ stderr = <<Usage>>)

C7_Witness ==
    /\ Len(argv) < 2
    /\ pc = "exited"
    /\ exit = 1
    /\ stderr = <<Usage>>

\* C8: a second successful run with the same arguments on the same document
\* leaves the output file exactly as the first successful run left it.
C8_SecondRunSameFile ==
    (/\ Succeeded
     /\ run > 1
     /\ prev.argv = argv
     /\ prev.exit = 0
     /\ Len(argv) > 2) => fs = prev.fs

\* two successful runs to out.txt of a document with text
C8_Witness ==
    /\ Succeeded
    /\ run > 1
    /\ prev.argv = argv
    /\ prev.exit = 0
    /\ Len(argv) > 2
    /\ argv[3] = OutTxt
    /\ HasText
    /\ fs[OutTxt].data = result
    /\ fs = prev.fs

\* C9: the progress notices on standard error are Processing page k/T for
\* k = 1, 2, ... in order, one per page reached: those of pages 1..i when
\* page i is about to be extracted, those of pages 1..i-1 when page i-1 has
\* just been extracted, and those of all T pages when no page failed.
C9_OneNoticePerPageInOrder ==
    /\ \E n \in 0..T : Notices = NoticesUpTo(n)
    /\ pc = "extract" => Notices = NoticesUpTo(i)
    /\ pc = "loop" => Notices = NoticesUpTo(i - 1)
    /\ exc = "extract failed" => Notices = NoticesUpTo(i)
    /\ (pc = "exited" /\ Len(argv) >= 2 /\ exc \notin DocFailures) => Notices = NoticesUpTo(T)

\* three pages, the second without text, all three announced
C9_Witness ==
    /\ Succeeded
    /\ T = 3
    /\ pdf.pages[2] \in {None, ""}
    /\ Notices = NoticesUpTo(3)

\* C10: the document is closed before the output is touched: the output
\* file is never open while the document is, no file or standard output
\* write happens with the document open, a write failure finds the document
\* closed, and the confirmation notice follows the write and close of the file.
C10_DocumentClosedBeforeOutput ==
    /\ [](outOpen => ~docOpen)
    /\ []((AfterJoin \/ exc \in OutFailures) => ~docOpen)
    /\ []((Len(stderr) > 0 /\ stderr[Len(stderr)] = Confirmation(output_path)) =>
            /\ ~outOpen
            /\ fs[output_path].exists
            /\ fs[output_path].data = result)
    /\ [][(fs' /= fs \/ outOpen' /= outOpen \/ (stdout' /= stdout /\ run' = run)) =>
            (~docOpen /\ ~docOpen')]_vars

\* the confirmation has been emitted for a written, closed file
C10_Witness ==
    /\ pc = "return"
    /\ HasText
    /\ stderr[Len(stderr)] = Confirmation(OutTxt)
    /\ fs[OutTxt].data = result
    /\ ~outOpen
    /\ ~docOpen

====
